---------------------------- MODULE Spec2Model ----------------------------
(***************************************************************************)
(* The checkers rules engine of src/src/board.py (class Board): the 64     *)
(* cell array, the side to move, the history stack, the status fields,     *)
(* the primitives move / kill_piece / make_king / undo_move, the queries   *)
(* is_draw / update_state / score, and reset / clear.                      *)
(*                                                                         *)
(* The move generators (generate_sliding_moves, generate_attacking_moves)  *)
(* and PieceTypes live in modules that board.py imports; they are          *)
(* modelled from sections 3 and 4.2 of the specification.                  *)
(*                                                                         *)
(* score is a float in the program.  Every non-terminal score is a         *)
(* multiple of 1/24 (the weight is k/12 and the centre distance is         *)
(* halved), so the model carries 24 * score as an integer.                 *)
(***************************************************************************)
EXTENDS Integers, Sequences, FiniteSets, TLC

VARIABLES board, current_side, made_moves, is_playing, winner,
          moves_without_kills, last, turn, streak, first_side

vars == <<board, current_side, made_moves, is_playing, winner,
          moves_without_kills, last, turn, streak, first_side>>

-----------------------------------------------------------------------------
(* Bounds of the model *)

\* longest history explored by the full specification
MaxHist == 2
\* largest piece magnitude make_king may produce in the model
MaxPiece == 4
\* longest history explored by the long-game specification
MaxLong == 42
\* the long game captures and promotes only while its history is this short
MaxOpening == 1

-----------------------------------------------------------------------------
(* Program constants and encodings *)

BoardSize == 64
DrawLimit == 40
FullMaterial == 12
\* self.winner = None
NoWinner == 0

Cell == 0 .. (BoardSize - 1)

BLUE == "BLUE"
RED == "RED"

\* PieceTypes.X.value: the list of piece values a side owns
SideValue(side) == IF side = BLUE THEN <<1, 2>> ELSE <<-1, -2>>

\* Python's  x in list
InList(x, list) == \E k \in DOMAIN list : list[k] = x

Other(side) == IF side = BLUE THEN RED ELSE BLUE

Rank(i) == i \div 8
File(i) == i % 8

Max(a, b) == IF a >= b THEN a ELSE b
Min(a, b) == IF a <= b THEN a ELSE b

EmptyBoard == [i \in Cell |-> 0]

\* the layout with a piece on every column of its six rows
DefaultArrangeFull ==
    [i \in Cell |->
        IF Rank(i) \in 0 .. 2 THEN -1
        ELSE IF Rank(i) \in 5 .. 7 THEN 1
        ELSE 0]

\* Board.__default_arrange_pieces: rows 0-2 red, rows 5-7 blue; on an even
\* row the odd columns, on an odd row the even columns
DefaultArrange ==
    [i \in Cell |->
        IF File(i) % 2 = (Rank(i) + 1) % 2
        THEN IF Rank(i) \in 0 .. 2 THEN -1
             ELSE IF Rank(i) \in 5 .. 7 THEN 1
             ELSE 0
        ELSE 0]

-----------------------------------------------------------------------------
(* The move generators, from section 4.2 of the specification *)

Abs(x) == IF x < 0 THEN -x ELSE x

AllDirections == {<<-1, -1>>, <<-1, 1>>, <<1, -1>>, <<1, 1>>}

\* a regular piece steps forward only (blue towards row 0, red towards
\* row 7); a king steps in all four diagonal directions
Directions(piece) ==
    IF piece = 1 THEN {<<-1, -1>>, <<-1, 1>>}
    ELSE IF piece = -1 THEN {<<1, -1>>, <<1, 1>>}
    ELSE AllDirections

OnBoard(r, f) == r \in 0 .. 7 /\ f \in 0 .. 7

\* the cell n steps from cell i in direction d (meaningful when on the board)
Step(i, d, n) == (Rank(i) + n * d[1]) * 8 + File(i) + n * d[2]

StepOnBoard(i, d, n) == OnBoard(Rank(i) + n * d[1], File(i) + n * d[2])

\* a regular piece that lands on its far edge row is promoted
MakesKing(piece, end) ==
    \/ piece = 1 /\ Rank(end) = 0
    \/ piece = -1 /\ Rank(end) = 7

Opposes(piece, other) ==
    \/ piece > 0 /\ other < 0
    \/ piece < 0 /\ other > 0

\* generate_sliding_moves(piece, start, board)
generate_sliding_moves(piece, start, b) ==
    { [start |-> start, end |-> Step(start, d, 1), kills |-> <<>>,
       make_king |-> MakesKing(piece, Step(start, d, 1))] :
        d \in { e \in Directions(piece) :
                  StepOnBoard(start, e, 1) /\ b[Step(start, e, 1)] = 0 } }

KilledCells(kills) == { kills[k][1] : k \in DOMAIN kills }

\* the directions in which a jump from pos is possible: an opposing piece
\* not yet captured in this chain next to pos, an empty cell beyond it
Jumps(piece, pos, b, kills) ==
    { d \in Directions(piece) :
        /\ StepOnBoard(pos, d, 2)
        /\ Opposes(piece, b[Step(pos, d, 1)])
        /\ Step(pos, d, 1) \notin KilledCells(kills)
        /\ b[Step(pos, d, 2)] = 0 }

RECURSIVE Chains(_, _, _, _, _)
\* the maximal capture chains of the piece that started on start and now
\* stands on pos, having captured kills
Chains(piece, start, pos, b, kills) ==
    IF Jumps(piece, pos, b, kills) = {}
    THEN IF kills = <<>> THEN {}
         ELSE { [start |-> start, end |-> pos, kills |-> kills,
                 make_king |-> MakesKing(piece, pos)] }
    ELSE UNION { Chains(piece, start, Step(pos, d, 2), b,
                        Append(kills, <<Step(pos, d, 1), b[Step(pos, d, 1)]>>)) :
                 d \in Jumps(piece, pos, b, kills) }

\* generate_attacking_moves(piece, start, board)
generate_attacking_moves(piece, start, b) == Chains(piece, start, start, b, <<>>)

\* the list concatenation sliding + attacking of update_state and score
all_moves(piece, start, b) ==
    generate_sliding_moves(piece, start, b) \cup generate_attacking_moves(piece, start, b)

\* the cells that hold a piece of the side
OwnCells(side, b) == {i \in Cell : b[i] # 0 /\ InList(b[i], SideValue(side))}

\* generate_moves(board), from section 6 of the specification: the moves of
\* every piece of the side to move; when one of them captures, the
\* capturing moves only
generate_moves(b, side) ==
    LET attacking == UNION { generate_attacking_moves(b[i], i, b) : i \in OwnCells(side, b) }
        sliding == UNION { generate_sliding_moves(b[i], i, b) : i \in OwnCells(side, b) }
    IN  IF attacking # {} THEN attacking ELSE sliding

-----------------------------------------------------------------------------
(* is_draw, update_state and score as functions of the state they read *)

\* sorted(self.__made_moves[index][:2]) for a negative Python index: the
\* start and end of that entry, order forgotten
SortedPair(mm, index) == {mm[Len(mm) + 1 + index].old, mm[Len(mm) + 1 + index].new}

\* Board.is_draw, lines 233-240: each side made the same move three times
Repeated(mm) ==
    /\ SortedPair(mm, -2) = SortedPair(mm, -4)
    /\ SortedPair(mm, -4) = SortedPair(mm, -6)
    /\ SortedPair(mm, -1) = SortedPair(mm, -3)
    /\ SortedPair(mm, -3) = SortedPair(mm, -5)

\* the draw that needs more than DrawLimit moves
IsDrawValueStrict(side, mm, mwk) ==
    IF side = BLUE
    THEN IF Len(mm) < 6 THEN FALSE
         ELSE IF Repeated(mm) THEN TRUE
         ELSE mwk > DrawLimit
    ELSE mwk > DrawLimit

\* the draw that looks for the repetition whichever side is to move
IsDrawValueBothSides(side, mm, mwk) ==
    IF Len(mm) < 6 THEN FALSE
    ELSE IF Repeated(mm) THEN TRUE
    ELSE mwk >= DrawLimit

\* Board.is_draw: the value it returns.  With blue to move, a history of
\* fewer than 6 entries raises IndexError inside the try and gives False.
IsDrawValue(side, mm, mwk) ==
    IF side = BLUE
    THEN IF Len(mm) < 6 THEN FALSE
         ELSE IF Repeated(mm) THEN TRUE
         ELSE mwk >= DrawLimit
    ELSE mwk >= DrawLimit

\* Board.update_state, lines 356-363: some piece of the side has a move
HasMove(side, b) ==
    \E i \in Cell :
        /\ b[i] # 0
        /\ InList(b[i], SideValue(side))
        /\ all_moves(b[i], i, b) # {}

\* the update that lets a lost game override a draw
UpdateStateValueLossFirst(b, side, mm, mwk, playing, win) ==
    IF ~HasMove(side, b) THEN <<FALSE, SideValue(side)[1] * (-1)>>
    ELSE IF IsDrawValue(side, mm, mwk) THEN <<FALSE, NoWinner>>
    ELSE <<playing, win>>

\* the update that puts a game that can go on back to playing
UpdateStateValueRestart(b, side, mm, mwk, playing, win) ==
    IF IsDrawValue(side, mm, mwk) THEN <<FALSE, NoWinner>>
    ELSE IF HasMove(side, b) THEN <<TRUE, NoWinner>>
    ELSE <<FALSE, SideValue(side)[1] * (-1)>>

\* Board.update_state: the status fields <<is_playing, winner>> it leaves
UpdateStateValue(b, side, mm, mwk, playing, win) ==
    IF IsDrawValue(side, mm, mwk) THEN <<FALSE, NoWinner>>
    ELSE IF HasMove(side, b) THEN <<playing, win>>
    ELSE <<FALSE, SideValue(side)[1] * (-1)>>

\* Board.score, lines 296-300: twelve times endgame_weight(no_of_pieces)
Weight12(b, side) ==
    LET opponent == Other(side)
        no_of_pieces == IF opponent = RED
                        THEN Cardinality({i \in Cell : b[i] > 0})
                        ELSE Cardinality({i \in Cell : b[i] < 0})
    IN  FullMaterial - Min(FullMaterial, no_of_pieces)

RECURSIVE SumOver(_, _)
SumOver(f, S) ==
    IF S = {} THEN 0
    ELSE LET x == CHOOSE y \in S : TRUE
         IN  f[x] + SumOver(f, S \ {x})

\* Board.score, lines 316-322: the mobility points of one piece
Mobility(piece, start, b) ==
    LET ms == all_moves(piece, start, b)
        pts == [m \in ms |-> 3 * Len(m.kills) + 2 + (IF m.make_king THEN 5 ELSE 0)]
    IN  SumOver(pts, ms)

\* Board.score, lines 326-330, without the factor 0.5 * weight
CenterDistance(start) ==
    Max(3 - File(start), File(start) - 4) + Max(3 - Rank(start), Rank(start) - 4)

\* the heuristic that forgets to negate the score for red
Heuristic24Unsigned(b, side) ==
    LET w12 == Weight12(b, side)
        pieces == {i \in Cell : b[i] # 0}
        material == SumOver(b, Cell) * 2 * 2 * w12
        piece_score == [i \in pieces |-> 24 * Mobility(b[i], i, b) - CenterDistance(i) * w12]
        signed == [i \in pieces |-> IF InList(b[i], SideValue(BLUE))
                                    THEN piece_score[i] ELSE - piece_score[i]]
    IN  material + SumOver(signed, pieces)

\* Board.score, lines 303-342: 24 times the heuristic score
Heuristic24(b, side) ==
    LET w12 == Weight12(b, side)
        pieces == {i \in Cell : b[i] # 0}
        material == SumOver(b, Cell) * 2 * 2 * w12
        piece_score == [i \in pieces |-> 24 * Mobility(b[i], i, b) - CenterDistance(i) * w12]
        signed == [i \in pieces |-> IF InList(b[i], SideValue(BLUE))
                                    THEN piece_score[i] ELSE - piece_score[i]]
        score == material + SumOver(signed, pieces)
    IN  IF side = RED THEN score * (-1) ELSE score

\* the score with the two infinities exchanged
ScoreValueSwapped(b, side, playing, win) ==
    IF ~playing
    THEN IF win # NoWinner
         THEN IF InList(win, SideValue(Other(side)))
              THEN [inf |-> 1, num |-> 0]
              ELSE [inf |-> -1, num |-> 0]
         ELSE [inf |-> 0, num |-> 0]
    ELSE [inf |-> 0, num |-> Heuristic24(b, side)]

\* Board.score: the value returned once update_state has left the status
\* <<playing, win>>; inf is -1, 0 or 1 for -infinity, a finite value,
\* +infinity, and num is 24 times the finite value
ScoreValue(b, side, playing, win) ==
    IF ~playing
    THEN IF win # NoWinner
         THEN IF InList(win, SideValue(Other(side)))
              THEN [inf |-> -1, num |-> 0]
              ELSE [inf |-> 1, num |-> 0]
         ELSE [inf |-> 0, num |-> 0]
    ELSE [inf |-> 0, num |-> Heuristic24(b, side)]

-----------------------------------------------------------------------------
(* The state changes of the primitives *)

\* Board.move, lines 128-130
MovedBoard(b, old_index, new_index) ==
    [b EXCEPT ![old_index] = 0, ![new_index] = b[old_index]]

\* the entry with the counter taken after its increment
MoveEntryLate(old_index, new_index, mwk) ==
    [old |-> old_index, new |-> new_index, kills |-> <<>>, king |-> FALSE, mwk |-> mwk + 1]

\* Board.move, lines 132-134: the history entry
\* [old_index, new_index, [], False, self.moves_without_kills]
MoveEntry(old_index, new_index, mwk) ==
    [old |-> old_index, new |-> new_index, kills |-> <<>>, king |-> FALSE, mwk |-> mwk]

\* the flip that always gives the turn to red
FlippedToRed(side) == RED

\* Board.move, lines 137-140 and Board.undo_move, lines 194-197
Flipped(side) == IF side = BLUE THEN RED ELSE BLUE

\* the entry with (index, piece) put in front of its captures
KilledEntryFirst(entry, index, piece) ==
    [entry EXCEPT !.kills = << <<index, piece>> >> \o entry.kills]

\* Board.kill_piece, line 155: the top entry with (index, piece) appended
KilledEntry(entry, index, piece) ==
    [entry EXCEPT !.kills = Append(entry.kills, <<index, piece>>)]

\* the promotion that doubles the piece twice
KingedBoardTwice(b, index) == [b EXCEPT ![index] = b[index] * 4]

\* Board.make_king, line 175
KingedBoard(b, index) == [b EXCEPT ![index] = b[index] * 2]

\* Board.make_king, line 176
KingedEntry(entry) == [entry EXCEPT !.king = TRUE]

\* the history with its top entry replaced
WithTop(mm, entry) == [mm EXCEPT ![Len(mm)] = entry]

RECURSIVE Restored(_, _)
\* Board.undo_move, lines 185-186: the captured pieces put back, in order
Restored(b, kills) ==
    IF kills = <<>> THEN b
    ELSE Restored([b EXCEPT ![Head(kills)[1]] = Head(kills)[2]], Tail(kills))

\* Board.undo_move, lines 182-183
Unkinged(b, entry) ==
    IF entry.king THEN [b EXCEPT ![entry.new] = b[entry.new] \div 2] ELSE b

\* the undo that does not put the captured pieces back
UndoneBoardNoRestore(b, entry) ==
    LET b2 == Unkinged(b, entry)
    IN  [b2 EXCEPT ![entry.new] = 0, ![entry.old] = b2[entry.new]]

\* Board.undo_move, lines 182-190: the board after the popped entry is undone
UndoneBoard(b, entry) ==
    LET b2 == Restored(Unkinged(b, entry), entry.kills)
    IN  [b2 EXCEPT ![entry.new] = 0, ![entry.old] = b2[entry.new]]

\* the counter restored to its value after the move that is undone
UndoneCounterLate(entry) == entry.mwk + 1

\* Board.undo_move, line 192
UndoneCounter(entry) == entry.mwk

\* the characters of Python's decimal digits
Digits == <<"0", "1", "2", "3", "4", "5", "6", "7", "8", "9">>

RECURSIVE DecStr(_)
\* str(n) for a natural number n
DecStr(n) ==
    IF n < 10 THEN <<Digits[n + 1]>>
    ELSE DecStr(n \div 10) \o <<Digits[(n % 10) + 1]>>

\* the string of an integer without its sign
IntStrUnsigned(n) == DecStr(Abs(n))

\* str(n) for an integer n
IntStr(n) == IF n < 0 THEN <<"-">> \o DecStr(-n) ELSE DecStr(n)

RECURSIVE Joined(_, _)
\* the items of str(list) from cell i on, separated by a comma and a space
Joined(b, i) ==
    IF i = BoardSize - 1 THEN IntStr(b[i])
    ELSE IntStr(b[i]) \o <<",", " ">> \o Joined(b, i + 1)

\* Board.hash: str(self.board), the list of the 64 cells written out
Hash(b) == <<"[">> \o Joined(b, 0) \o <<"]">>

-----------------------------------------------------------------------------
(* Observation of the calls *)

\* what the last call was and what it returned or raised (text is the
\* string hash returned, character by character)
Call(op, ok, err, a, b) ==
    [op |-> op, ok |-> ok, err |-> err, a |-> a, b |-> b,
     draw |-> FALSE, inf |-> 0, num |-> 0, w12 |-> -1, text |-> <<>>]

\* the snapshot of a turn: the state before its move call, the cell the
\* piece moved to, and how far the turn got
ClosedTurn ==
    [phase |-> "closed", to |-> 0, nkills |-> 0,
     board |-> EmptyBoard, side |-> BLUE, mwk |-> 0, hist |-> <<>>]

-----------------------------------------------------------------------------
(* Inputs of the model *)

\* the cells the calls are made on: one diagonal, from the edge row 0
\* (cell 1) towards the centre; a blue piece on 19 jumps a red one on 10
\* and lands on 1
InputCells == {1, 10, 19}

\* a custom layout given to the constructor
Layout(pieces) == [i \in Cell |-> IF i \in DOMAIN pieces THEN pieces[i] ELSE 0]

\* the layouts the model constructs boards from; DefaultArrange is
\* Board(None)
Layouts ==
    { DefaultArrange,
      Layout(19 :> 1 @@ 10 :> -1),
      Layout(1 :> 1 @@ 28 :> -1 @@ 37 :> 1) }

-----------------------------------------------------------------------------
(* The state machine *)

\* Board.__init__
Init ==
    /\ board \in Layouts
    /\ current_side \in {BLUE, RED}
    /\ first_side = current_side
    /\ made_moves = <<>>
    /\ is_playing = TRUE
    /\ winner = NoWinner
    /\ moves_without_kills = 0
    /\ last = Call("init", TRUE, "", 0, 0)
    /\ turn = ClosedTurn
    /\ streak = 0

\* a call that has counted itself as a move when it raises
RaiseLate(op, err, a, b) ==
    /\ last' = Call(op, FALSE, err, 0, 0)
    /\ turn' = ClosedTurn
    /\ moves_without_kills' = moves_without_kills + 1
    /\ UNCHANGED <<first_side, board, current_side, made_moves, is_playing, winner>>

\* a call that raises before it assigns anything
Raise(op, err, a, b) ==
    /\ last' = Call(op, FALSE, err, 0, 0)
    /\ turn' = ClosedTurn
    /\ UNCHANGED <<first_side, board, current_side, made_moves, is_playing, winner,
                   moves_without_kills>>

\* Board.move
move(old_index, new_index) ==
    IF board[new_index] # 0
    THEN Raise("move", "occupied", old_index, new_index) /\ UNCHANGED streak
    ELSE IF board[old_index] = 0
    THEN Raise("move", "no_piece", old_index, new_index) /\ UNCHANGED streak
    ELSE /\ board' = MovedBoard(board, old_index, new_index)
         /\ made_moves' = Append(made_moves, MoveEntry(old_index, new_index, moves_without_kills))
         /\ moves_without_kills' = moves_without_kills + 1
         /\ current_side' = Flipped(current_side)
         /\ last' = Call("move", TRUE, "", old_index, new_index)
         /\ turn' = [phase |-> "open", to |-> new_index, nkills |-> 0,
                     board |-> board, side |-> current_side,
                     mwk |-> moves_without_kills, hist |-> made_moves]
         /\ streak' = streak + 1
         /\ UNCHANGED <<first_side, is_playing, winner>>

\* Board.kill_piece; line 155 reads self.__made_moves[-1] first, which
\* raises IndexError on an empty history
kill_piece(index) ==
    IF board[index] = 0
    THEN Raise("kill_piece", "no_piece", index, 0) /\ streak' = 0
    ELSE IF made_moves = <<>>
    THEN Raise("kill_piece", "empty_history", index, 0) /\ streak' = 0
    ELSE /\ made_moves' = WithTop(made_moves,
                                  KilledEntry(made_moves[Len(made_moves)], index, board[index]))
         /\ moves_without_kills' = 0
         /\ board' = [board EXCEPT ![index] = 0]
         /\ last' = Call("kill_piece", TRUE, "", index, 0)
         /\ turn' = IF turn.phase = "open"
                    THEN [turn EXCEPT !.nkills = turn.nkills + 1]
                    ELSE ClosedTurn
         /\ streak' = 0
         /\ UNCHANGED <<first_side, current_side, is_playing, winner>>

\* Board.make_king; on an empty history line 175 has doubled the piece
\* when line 176 raises IndexError
make_king(index) ==
    IF Rank(index) \notin {0, 7}
    THEN Raise("make_king", "not_edge", index, 0) /\ UNCHANGED streak
    ELSE IF board[index] = 0
    THEN Raise("make_king", "no_piece", index, 0) /\ UNCHANGED streak
    ELSE IF made_moves = <<>>
    THEN /\ board' = KingedBoard(board, index)
         /\ last' = Call("make_king", FALSE, "empty_history", 0, 0)
         /\ turn' = ClosedTurn
         /\ UNCHANGED <<first_side, current_side, made_moves, is_playing, winner,
                        moves_without_kills, streak>>
    ELSE /\ board' = KingedBoard(board, index)
         /\ made_moves' = WithTop(made_moves, KingedEntry(made_moves[Len(made_moves)]))
         /\ last' = Call("make_king", TRUE, "", index, 0)
         /\ turn' = IF turn.phase = "open" /\ index = turn.to
                    THEN [turn EXCEPT !.phase = "promoted"]
                    ELSE ClosedTurn
         /\ UNCHANGED <<first_side, current_side, is_playing, winner, moves_without_kills, streak>>

\* Board.undo_move; pop() raises IndexError on an empty history
undo_move ==
    IF made_moves = <<>>
    THEN Raise("undo_move", "empty_history", 0, 0) /\ streak' = 0
    ELSE LET last_move == made_moves[Len(made_moves)]
         IN  /\ made_moves' = SubSeq(made_moves, 1, Len(made_moves) - 1)
             /\ board' = UndoneBoard(board, last_move)
             /\ moves_without_kills' = UndoneCounter(last_move)
             /\ current_side' = Flipped(current_side)
             /\ last' = Call("undo_move", TRUE, "", Len(last_move.kills),
                             IF last_move.king THEN 1 ELSE 0)
             /\ turn' = IF turn.phase \in {"open", "promoted"}
                        THEN [turn EXCEPT !.phase = "undone"]
                        ELSE ClosedTurn
             /\ streak' = 0
             /\ UNCHANGED <<first_side, is_playing, winner>>

\* the is_draw that sets is_playing to the negation of its result
is_draw_refreshing ==
    LET d == IsDrawValue(current_side, made_moves, moves_without_kills)
    IN  /\ is_playing' = ~d
        /\ winner' = IF d THEN NoWinner ELSE winner
        /\ last' = [Call("is_draw", TRUE, "", 0, 0) EXCEPT !.draw = d]
        /\ turn' = ClosedTurn
        /\ UNCHANGED <<first_side, board, current_side, made_moves, moves_without_kills, streak>>

\* Board.is_draw
is_draw ==
    LET d == IsDrawValue(current_side, made_moves, moves_without_kills)
    IN  /\ is_playing' = IF d THEN FALSE ELSE is_playing
        /\ winner' = IF d THEN NoWinner ELSE winner
        /\ last' = [Call("is_draw", TRUE, "", 0, 0) EXCEPT !.draw = d]
        /\ turn' = ClosedTurn
        /\ UNCHANGED <<first_side, board, current_side, made_moves, moves_without_kills, streak>>

\* Board.update_state
update_state ==
    LET st == UpdateStateValue(board, current_side, made_moves, moves_without_kills,
                               is_playing, winner)
    IN  /\ is_playing' = st[1]
        /\ winner' = st[2]
        /\ last' = Call("update_state", TRUE, "", 0, 0)
        /\ turn' = ClosedTurn
        /\ UNCHANGED <<first_side, board, current_side, made_moves, moves_without_kills, streak>>

\* Board.score: update_state, then the value
score ==
    LET st == UpdateStateValue(board, current_side, made_moves, moves_without_kills,
                               is_playing, winner)
        v == ScoreValue(board, current_side, st[1], st[2])
    IN  /\ is_playing' = st[1]
        /\ winner' = st[2]
        /\ last' = [Call("score", TRUE, "", 0, 0) EXCEPT
                      !.inf = v.inf, !.num = v.num,
                      !.w12 = IF st[1] THEN Weight12(board, current_side) ELSE -1]
        /\ turn' = ClosedTurn
        /\ UNCHANGED <<first_side, board, current_side, made_moves, moves_without_kills, streak>>

\* the reset that keeps the side to move
reset_keeping_side ==
    /\ board' = DefaultArrange
    /\ made_moves' = <<>>
    /\ is_playing' = TRUE
    /\ winner' = NoWinner
    /\ moves_without_kills' = 0
    /\ last' = Call("reset", TRUE, "", Len(made_moves), IF is_playing THEN 0 ELSE 1)
    /\ turn' = ClosedTurn
    /\ streak' = 0
    /\ UNCHANGED <<first_side, current_side>>

\* Board.reset; the call is observed with the length of the history and
\* the status (1 for a game that was over) it was made on
reset ==
    /\ board' = DefaultArrange
    /\ current_side' = BLUE
    /\ first_side' = BLUE
    /\ made_moves' = <<>>
    /\ is_playing' = TRUE
    /\ winner' = NoWinner
    /\ moves_without_kills' = 0
    /\ last' = Call("reset", TRUE, "", Len(made_moves), IF is_playing THEN 0 ELSE 1)
    /\ turn' = ClosedTurn
    /\ streak' = 0

\* the clear that also starts the game again
clear_and_restart ==
    /\ board' = EmptyBoard
    /\ is_playing' = TRUE
    /\ winner' = NoWinner
    /\ last' = Call("clear", TRUE, "", 0, 0)
    /\ turn' = ClosedTurn
    /\ UNCHANGED <<first_side, current_side, made_moves, moves_without_kills, streak>>

\* Board.clear
clear ==
    /\ board' = EmptyBoard
    /\ last' = Call("clear", TRUE, "", 0, 0)
    /\ turn' = ClosedTurn
    /\ UNCHANGED <<first_side, current_side, made_moves, is_playing, winner,
                   moves_without_kills, streak>>

\* Board.hash
hash ==
    /\ last' = [Call("hash", TRUE, "", 0, 0) EXCEPT !.text = Hash(board)]
    /\ turn' = ClosedTurn
    /\ UNCHANGED <<first_side, board, current_side, made_moves, is_playing, winner,
                   moves_without_kills, streak>>

\* Game.reset_correct_moves: the list self.moves it assigns for the board
\* as it is
reset_correct_moves == generate_moves(board, current_side)

\* make_king is called while the result stays within the model's pieces
WithinPieces(index) == Abs(board[index]) * 2 <= MaxPiece

Next ==
    \/ \E old_index, new_index \in InputCells :
          Len(made_moves) < MaxHist /\ move(old_index, new_index)
    \/ \E index \in InputCells : kill_piece(index)
    \/ \E index \in InputCells : WithinPieces(index) /\ make_king(index)
    \/ undo_move
    \/ is_draw
    \/ update_state
    \/ score
    \/ reset
    \/ clear

Spec == Init /\ [][Next]_vars

-----------------------------------------------------------------------------
(* The long game: each side in turn moves a piece of its own back and      *)
(* forth (or round a three-cell cycle), far beyond the 40-move limit; the  *)
(* other calls are as above; captures, promotions and undo in the opening  *)
(* only                                                                    *)

\* the moves of the long game
LongPairs ==
    { <<10, 1>>, <<1, 10>>, <<19, 28>>, <<28, 19>>,
      <<12, 21>>, <<21, 30>>, <<30, 12>> }

\* cell 62 holds a red piece on row 7, which has no move until it is a king
LongCells == {1, 62}

LongLayouts ==
    { Layout(10 :> 1 @@ 19 :> -1 @@ 62 :> -1),
      Layout(28 :> 1 @@ 1 :> -1 @@ 62 :> -1),
      Layout(12 :> 1 @@ 19 :> -1 @@ 62 :> -1) }

InitLong ==
    /\ board \in LongLayouts
    /\ current_side \in {BLUE, RED}
    /\ first_side = current_side
    /\ made_moves = <<>>
    /\ is_playing = TRUE
    /\ winner = NoWinner
    /\ moves_without_kills = 0
    /\ last = Call("init", TRUE, "", 0, 0)
    /\ turn = ClosedTurn
    /\ streak = 0

\* the side to move plays a piece of its own
OwnPiece(index) == InList(board[index], SideValue(current_side))

NextLong ==
    \/ \E p \in LongPairs :
          Len(made_moves) < MaxLong /\ OwnPiece(p[1]) /\ move(p[1], p[2])
    \/ \E index \in LongCells :
          Len(made_moves) <= MaxOpening /\ kill_piece(index)
    \/ \E index \in LongCells :
          Len(made_moves) <= MaxOpening /\ WithinPieces(index) /\ make_king(index)
    \/ Len(made_moves) <= MaxOpening + 1 /\ undo_move
    \/ is_draw
    \/ update_state
    \/ score
    \/ reset

LongGame == InitLong /\ [][NextLong]_vars

-----------------------------------------------------------------------------
(* The hashed boards: move, make_king and undo_move, update_state for the  *)
(* status, reset and clear as in the full specification, and hash called   *)
(* in every state                                                          *)

NextHash ==
    \/ \E old_index, new_index \in InputCells :
          Len(made_moves) < MaxHist /\ move(old_index, new_index)
    \/ \E index \in InputCells : WithinPieces(index) /\ make_king(index)
    \/ undo_move
    \/ update_state
    \/ reset
    \/ clear
    \/ hash

HashCalls == Init /\ [][NextHash]_vars

-----------------------------------------------------------------------------
(* Undo, failing calls and the move call *)

\* C1: one undo after a whole turn (a successful move, then successful
\* captures, then possibly a successful promotion of the moved piece)
\* restores the cell array, the counter, the side to move and the history
\* to what they were before the turn.
UndoRestoresTurn ==
    turn.phase = "undone" =>
        /\ board = turn.board
        /\ moves_without_kills = turn.mwk
        /\ current_side = turn.side
        /\ made_moves = turn.hist

\* a turn with a capture and a promotion has just been undone
UndoneCaptureAndPromotion ==
    /\ turn.phase = "undone"
    /\ last.op = "undo_move" /\ last.ok
    /\ last.a >= 1
    /\ last.b = 1

\* the validation failures: move on an occupied destination or from an
\* empty origin, kill of an empty cell, promote off the edge rows or of an
\* empty cell, undo on an empty history
ValidationFailure(call) ==
    /\ ~call.ok
    /\ \/ call.op = "move" /\ call.err \in {"occupied", "no_piece"}
       \/ call.op = "kill_piece" /\ call.err = "no_piece"
       \/ call.op = "make_king" /\ call.err \in {"not_edge", "no_piece"}
       \/ call.op = "undo_move" /\ call.err = "empty_history"

\* C2: a call that fails its validation leaves the cell array, the history,
\* the counter and the side to move as they were, on an empty history too.
ValidationFailureChangesNothing ==
    [][ValidationFailure(last') =>
          UNCHANGED <<board, made_moves, moves_without_kills, current_side>>]_vars

\* a promotion has failed its validation on an empty history
PromoteRefusedOnEmptyHistory ==
    /\ ValidationFailure(last)
    /\ last.op = "make_king"
    /\ made_moves = <<>>

\* C10: a successful move(from, to) puts the piece of from on to, empties
\* from, leaves every other cell, pushes (from, to, [], false, counter
\* before the call), adds 1 to the counter, flips the side to move and
\* leaves is_playing and winner alone.
MoveDoesExactlyThis ==
    [][(last'.op = "move" /\ last'.ok) =>
        /\ board[last'.a] # 0
        /\ board' = [i \in Cell |-> IF i = last'.b THEN board[last'.a]
                                    ELSE IF i = last'.a THEN 0
                                    ELSE board[i]]
        /\ made_moves' = made_moves \o
              << [old |-> last'.a, new |-> last'.b, kills |-> <<>>,
                  king |-> FALSE, mwk |-> moves_without_kills] >>
        /\ moves_without_kills' = moves_without_kills + 1
        /\ current_side' # current_side
        /\ is_playing' = is_playing
        /\ winner' = winner]_vars

\* a second move has succeeded on a history that held one entry
SecondMoveMade ==
    /\ last.op = "move" /\ last.ok
    /\ Len(made_moves) = 2
    /\ moves_without_kills = 2

-----------------------------------------------------------------------------
(* Draws, losses and terminal states *)

\* the position is a draw for is_draw
DrawNow == IsDrawValue(current_side, made_moves, moves_without_kills)

\* the side to move owns a piece and none of its pieces has a move
Stuck ==
    /\ \E i \in Cell : InList(board[i], SideValue(current_side))
    /\ ~HasMove(current_side, board)

\* the winner recorded when the side to move has lost
OtherSideWins == IF current_side = BLUE THEN -1 ELSE 1

\* C3: after 40 successful move calls in a row, with no kill (nor undo or
\* reset) between them, is_draw returns true and leaves no winner and
\* is_playing false, whichever side is to move.
AttritionDraw ==
    (last.op = "is_draw" /\ streak >= DrawLimit) =>
        /\ last.draw
        /\ winner = NoWinner
        /\ ~is_playing

\* is_draw has answered after 40 moves in a row, blue to move, on a
\* history without repetition that was captured on in the opening
AttritionDrawCalled ==
    /\ last.op = "is_draw"
    /\ streak >= DrawLimit
    /\ current_side = BLUE
    /\ ~Repeated(made_moves)
    /\ moves_without_kills < Len(made_moves)

\* C4 as claimed: update_state on a stuck side to move records the other
\* side as winner and stops the game; on a position that is not a draw and
\* where the side to move has a move it changes neither field.
NoMoveLoss ==
    [][last'.op = "update_state" =>
         /\ Stuck => (winner' = OtherSideWins /\ ~is_playing')
         /\ (~DrawNow /\ HasMove(current_side, board)) =>
               (winner' = winner /\ is_playing' = is_playing)]_vars

\* C4 amended: the same, for a stuck side to move on a position that is
\* not a draw.
NoMoveLossUnlessDraw ==
    [][last'.op = "update_state" =>
         /\ (Stuck /\ ~DrawNow) => (winner' = OtherSideWins /\ ~is_playing')
         /\ (~DrawNow /\ HasMove(current_side, board)) =>
               (winner' = winner /\ is_playing' = is_playing)
         /\ DrawNow => (winner' = NoWinner /\ ~is_playing')]_vars

\* update_state has declared the loss of a stuck side to move
LossDeclared ==
    /\ last.op = "update_state"
    /\ Stuck /\ ~DrawNow
    /\ winner = OtherSideWins
    /\ ~is_playing

\* C5 as claimed: once the game is over, no call but reset changes
\* is_playing or winner.
TerminalIsAbsorbing ==
    [][(~is_playing /\ last'.op # "reset") =>
          (is_playing' = is_playing /\ winner' = winner)]_vars

\* C5 amended: once is_playing is false, no call but reset makes it true,
\* and move, kill, promote and undo leave winner alone (is_draw,
\* update_state and score may still overwrite winner).
GameOverStaysOver ==
    [][(~is_playing /\ last'.op # "reset") =>
          /\ ~is_playing'
          /\ last'.op \in {"move", "kill_piece", "make_king", "undo_move"} =>
                winner' = winner]_vars

\* a move was made on a game that was over, and a query answered after it
PlayedOnAfterGameOver ==
    /\ ~is_playing
    /\ winner # NoWinner
    /\ last.op = "score"
    /\ streak >= 3
    /\ HasMove(current_side, board)

-----------------------------------------------------------------------------
(* The score *)

\* C6 as claimed: score leaves is_playing, winner, the counter, the cell
\* array, the side to move and the history as they were.
ScoreReadsOnly ==
    [][last'.op = "score" =>
          UNCHANGED <<is_playing, winner, moves_without_kills, board,
                      current_side, made_moves>>]_vars

\* C6 amended: score leaves the counter, the cell array, the side to move
\* and the history as they were; it may stop the game and record a winner
\* (it calls update_state), it never sets is_playing back to true, and it
\* leaves winner alone when the game goes on.
ScoreChangesOnlyStatus ==
    [][last'.op = "score" =>
          /\ UNCHANGED <<moves_without_kills, board, current_side, made_moves>>
          /\ is_playing' => (is_playing /\ winner' = winner)
          /\ (is_playing /\ ~is_playing') => (DrawNow \/ ~HasMove(current_side, board))]_vars

\* score has stopped a game that was on: the side to move was stuck
ScoreStoppedGame ==
    /\ last.op = "score"
    /\ last.inf = -1
    /\ Stuck
    /\ made_moves = <<>>

\* C7: score returns -infinity when update_state finds the side to move
\* lost (no move, no draw), 0 when the position is a draw, and +infinity
\* only when the recorded winner is the side to move.
TerminalScore ==
    last.op = "score" =>
        /\ (~DrawNow /\ ~HasMove(current_side, board)) => last.inf = -1
        /\ DrawNow => (last.inf = 0 /\ last.num = 0)
        /\ last.inf = 1 => (~is_playing /\ InList(winner, SideValue(current_side)))

\* score has returned -infinity for a stuck side to move
LossScored ==
    /\ last.op = "score"
    /\ last.inf = -1
    /\ Stuck /\ ~DrawNow
    /\ Len(made_moves) >= 2

\* Board.score on a board whose status is fresh (playing, no winner)
ScoreFresh(b, side, mm, mwk) ==
    LET st == UpdateStateValue(b, side, mm, mwk, TRUE, NoWinner)
    IN  ScoreValue(b, side, st[1], st[2])

\* every piece value negated, cell by cell
Negated(b) == [i \in Cell |-> - b[i]]

\* every piece value negated and the board turned by 180 degrees
Mirrored(b) == [i \in Cell |-> - b[BoardSize - 1 - i]]

\* C8 as claimed: a board and the board with every piece negated and the
\* side to move swapped (same history, fresh status) have the same score.
ScoreSignSymmetry ==
    ScoreFresh(board, current_side, made_moves, moves_without_kills)
        = ScoreFresh(Negated(board), Other(current_side), made_moves, moves_without_kills)

\* the history shows the repetition that is_draw looks for with blue to
\* move, and the 40-move limit is not reached
RepetitionOnly ==
    /\ Len(made_moves) >= 6
    /\ Repeated(made_moves)
    /\ moves_without_kills < DrawLimit

\* every piece is a regular piece or a king
RegularPieces == \A i \in Cell : Abs(board[i]) <= 2

\* C8 amended: a board of regular pieces and kings and the board with every
\* piece negated, the cells turned by 180 degrees and the side to move
\* swapped (same history, fresh status) have the same score, unless the
\* history shows the repetition that only blue to move is a draw for.
ScoreMirrorSymmetry ==
    (RegularPieces /\ ~RepetitionOnly) =>
        ScoreFresh(board, current_side, made_moves, moves_without_kills)
            = ScoreFresh(Mirrored(board), Other(current_side), made_moves, moves_without_kills)

\* a position with a capture on it and a finite score, red to move
MirrorScored ==
    /\ RegularPieces
    /\ ~RepetitionOnly
    /\ current_side = RED
    /\ is_playing
    /\ \E i \in Cell : board[i] # 0 /\ generate_attacking_moves(board[i], i, board) # {}
    /\ ScoreFresh(board, current_side, made_moves, moves_without_kills).num # 0
    /\ ScoreFresh(board, current_side, made_moves, moves_without_kills)
         # ScoreFresh(Negated(board), Other(current_side), made_moves, moves_without_kills)

\* the pieces of the opponent of the side to move
OpponentPieces ==
    IF current_side = BLUE THEN {i \in Cell : board[i] < 0}
    ELSE {i \in Cell : board[i] > 0}

\* C9: in a position that is not terminal, twelve times the weight score
\* applies is 12 - min(12, n), n the number of the opponent's pieces.
WeightCountsOpponent ==
    (last.op = "score" /\ last.w12 >= 0) =>
        last.w12 = FullMaterial - Min(FullMaterial, Cardinality(OpponentPieces))

-----------------------------------------------------------------------------
(* The history stack, promotion, reset and clear *)

\* the entries of the history below its top
BelowTop(mm) == SubSeq(mm, 1, Len(mm) - 1)

\* what a successful kill_piece(cell) does: (cell, piece) goes to the end
\* of the capture list of the top entry, the counter becomes 0, the cell
\* becomes empty
KillEffect ==
    (last'.op = "kill_piece" /\ last'.ok) =>
        /\ made_moves # <<>>
        /\ board[last'.a] # 0
        /\ made_moves' = BelowTop(made_moves) \o
              << [made_moves[Len(made_moves)] EXCEPT
                    !.kills = made_moves[Len(made_moves)].kills
                                 \o << <<last'.a, board[last'.a]>> >>] >>
        /\ moves_without_kills' = 0
        /\ board' = [i \in Cell |-> IF i = last'.a THEN 0 ELSE board[i]]

\* the history grows by one entry, in move only
GrowsInMoveOnly ==
    Len(made_moves') > Len(made_moves) =>
        /\ last'.op = "move"
        /\ BelowTop(made_moves') = made_moves

\* a history that keeps its length keeps every entry below its top
KeepsBelowTop ==
    Len(made_moves') = Len(made_moves) =>
        BelowTop(made_moves') = BelowTop(made_moves)

\* C11 as claimed: kill_piece appends to the top entry, resets the counter
\* and empties the cell; the history grows by one entry only in move,
\* shrinks by one entry only in undo, and no call touches an entry below
\* the top.
HistoryIsStack ==
    [][/\ KillEffect
       /\ GrowsInMoveOnly
       /\ KeepsBelowTop
       /\ Len(made_moves') < Len(made_moves) =>
             /\ last'.op = "undo_move"
             /\ made_moves' = BelowTop(made_moves)]_vars

\* C11 amended: the same, except that reset empties the whole history.
HistoryIsStackUntilReset ==
    [][/\ KillEffect
       /\ GrowsInMoveOnly
       /\ KeepsBelowTop
       /\ Len(made_moves') < Len(made_moves) =>
             \/ last'.op = "undo_move" /\ made_moves' = BelowTop(made_moves)
             \/ last'.op = "reset" /\ made_moves' = <<>>]_vars

\* a second capture has been recorded on the top entry of a history of two
SecondKillOnTop ==
    /\ last.op = "kill_piece" /\ last.ok
    /\ Len(made_moves) = 2
    /\ Len(made_moves[2].kills) = 2
    /\ made_moves[1].kills = <<>>

\* C12: promote(cell) succeeds only on a cell of row 0 or row 7 that holds
\* a piece; a successful call multiplies the value of that cell by 2, sets
\* the promotion flag of the top history entry and changes no other cell,
\* no other entry or field of the history, nor the side to move, nor the
\* counter.
PromotionBoundary ==
    [][(last'.op = "make_king" /\ last'.ok) =>
        /\ Rank(last'.a) \in {0, 7}
        /\ board[last'.a] # 0
        /\ board' = [i \in Cell |-> IF i = last'.a THEN 2 * board[i] ELSE board[i]]
        /\ made_moves # <<>>
        /\ made_moves' = BelowTop(made_moves) \o
              << [made_moves[Len(made_moves)] EXCEPT !.king = TRUE] >>
        /\ current_side' = current_side
        /\ moves_without_kills' = moves_without_kills]_vars

\* a red piece that moved to row 0 has been promoted there, on a history
\* of two entries
PromotedOnRowZero ==
    /\ last.op = "make_king" /\ last.ok
    /\ Rank(last.a) = 0
    /\ board[last.a] = -2
    /\ Len(made_moves) = 2
    /\ made_moves[2].king /\ ~made_moves[1].king
    /\ moves_without_kills = 2

\* the cells of a row that hold a piece
RowPieces(b, r) == {i \in Cell : Rank(i) = r /\ b[i] # 0}

\* the default layout as the claim describes it: 12 red pieces on rows
\* 0-2, 12 blue pieces on rows 5-7, rows 3 and 4 empty, four pieces a row
\* on every other column, the columns shifted from one row to the next
DefaultLayoutShape(b) ==
    /\ Cardinality({i \in Cell : b[i] = -1}) = 12
    /\ Cardinality({i \in Cell : b[i] = 1}) = 12
    /\ \A i \in Cell : b[i] \in {-1, 0, 1}
    /\ \A i \in Cell : b[i] = -1 => Rank(i) \in 0 .. 2
    /\ \A i \in Cell : b[i] = 1 => Rank(i) \in 5 .. 7
    /\ \A r \in (0 .. 2) \cup (5 .. 7) :
          /\ Cardinality(RowPieces(b, r)) = 4
          /\ \A i, j \in RowPieces(b, r) : File(i) % 2 = File(j) % 2
    /\ \A i, j \in Cell :
          (b[i] # 0 /\ b[j] # 0 /\ Rank(j) = Rank(i) + 1) => File(i) % 2 # File(j) % 2

\* C13: after reset, whatever was done before it (a game that was over
\* included), the state is the one a default construction gives: the
\* default layout, blue to move, an empty history, is_playing true, no
\* winner and a counter of 0.
ResetIsFreshConstruction ==
    last.op = "reset" =>
        /\ board = DefaultArrange
        /\ DefaultLayoutShape(board)
        /\ current_side = BLUE
        /\ made_moves = <<>>
        /\ is_playing
        /\ winner = NoWinner
        /\ moves_without_kills = 0

\* reset was called on a game that was over, with a history of two
\* entries
ResetAfterGameOver ==
    /\ last.op = "reset"
    /\ last.a = 2
    /\ last.b = 1

-----------------------------------------------------------------------------
(* The hash *)

\* cell arrays to compare the hashed one with: the empty board, the
\* layouts boards are constructed from, and every board one move or one
\* cell value away from the hashed one
HashNeighbours ==
    {EmptyBoard} \cup Layouts
        \cup { MovedBoard(board, o, n) : o, n \in InputCells }
        \cup { [board EXCEPT ![i] = v] : i \in InputCells, v \in (-MaxPiece) .. MaxPiece }

\* C14: the string hash returns is the one of any state with the same 64
\* cells, whatever the history, the side to move, the counter and the
\* status of the two states and however they were reached, and differs
\* from the one of any state with another value in some cell.
HashOfCellsAlone ==
    last.op = "hash" =>
        \A b2 \in HashNeighbours : (last.text = Hash(b2)) <=> (board = b2)

\* hash was called on a game that is over, with a history of two entries,
\* on the cells of a layout a board was constructed from
HashedAfterRoundTrip ==
    /\ last.op = "hash"
    /\ board \in Layouts
    /\ Len(made_moves) = 2
    /\ moves_without_kills = 2
    /\ ~is_playing
    /\ last.text = Hash(board)
    /\ Len(last.text) > 2 * BoardSize

-----------------------------------------------------------------------------
(* The legal moves *)

\* C15: on the default layout with blue to move the list of legal moves
\* holds exactly 7 moves, each of them a simple move: no capture and no
\* promotion.
OpeningMoveCount ==
    (board = DefaultArrange /\ current_side = BLUE) =>
        /\ Cardinality(reset_correct_moves) = 7
        /\ \A m \in reset_correct_moves : m.kills = <<>> /\ ~m.make_king

\* a board constructed with the default layout, blue to move: the seven
\* moves are those of the four blue pieces of row 5 to row 4
OpeningMovesListed ==
    /\ board = DefaultArrange /\ current_side = BLUE
    /\ last.op = "init"
    /\ { <<m.start, m.end>> : m \in reset_correct_moves }
          = { <<40, 33>>, <<42, 33>>, <<42, 35>>, <<44, 35>>,
              <<44, 37>>, <<46, 37>>, <<46, 39>> }

-----------------------------------------------------------------------------
(* clear *)

\* C16: clear empties the 64 cells and leaves the side to move, the
\* history, the counter, is_playing and winner as they were.
ClearEmptiesCellsOnly ==
    [][last'.op = "clear" =>
          /\ \A i \in Cell : board'[i] = 0
          /\ UNCHANGED <<current_side, made_moves, moves_without_kills,
                         is_playing, winner>>]_vars

\* a game that is over with a winner, with a capture on the second of its
\* two history entries, has been cleared
ClearedFinishedGame ==
    /\ last.op = "clear"
    /\ board = EmptyBoard
    /\ turn.phase = "closed"
    /\ Len(made_moves) = 2
    /\ made_moves[2].kills # <<>>
    /\ moves_without_kills = 0
    /\ ~is_playing
    /\ winner # NoWinner

-----------------------------------------------------------------------------
(* Repetition and the counter *)

\* the unordered {from, to} pair of the k-th history entry
MovePair(k) == {made_moves[k].old, made_moves[k].new}

\* the three most recent moves of each side have the same pair (the last,
\* third last and fifth last entries, and the second, fourth and sixth
\* last)
ThreefoldRepetition ==
    /\ Len(made_moves) >= 6
    /\ LET n == Len(made_moves)
       IN  /\ MovePair(n) = MovePair(n - 2) /\ MovePair(n - 2) = MovePair(n - 4)
           /\ MovePair(n - 1) = MovePair(n - 3) /\ MovePair(n - 3) = MovePair(n - 5)

\* C17: with blue to move and a history of at least 6 entries whose three
\* most recent moves of each side repeat, is_draw returns true and leaves
\* is_playing false and no winner, below 40 moves without kills too; with
\* red to move is_draw returns true exactly when the counter is at least 40.
RepetitionDraw ==
    last.op = "is_draw" =>
        /\ (current_side = BLUE /\ ThreefoldRepetition) =>
              (last.draw /\ ~is_playing /\ winner = NoWinner)
        /\ current_side = RED => (last.draw <=> moves_without_kills >= DrawLimit)

\* is_draw has found a draw by repetition, blue to move, after six moves
\* and a capture on the first of them
RepetitionDrawCalled ==
    /\ last.op = "is_draw"
    /\ last.draw
    /\ current_side = BLUE
    /\ ThreefoldRepetition
    /\ Len(made_moves) = 6
    /\ moves_without_kills = 5

-----------------------------------------------------------------------------
(* The score after undo *)

\* C18: the score returned is the one of the position (cell array, side to
\* move, history and counter), whatever is_playing and winner were before
\* the call: it is the score of the same position with a fresh status.
ScoreOfPositionAlone ==
    last.op = "score" =>
        [inf |-> last.inf, num |-> last.num]
            = ScoreFresh(board, current_side, made_moves, moves_without_kills)

-----------------------------------------------------------------------------
(* The counter, the history and the side to move *)

RECURSIVE EntriesAboveLastCapture(_)
\* the number of history entries above the topmost entry that holds a
\* capture; the length of a history without captures
EntriesAboveLastCapture(mm) ==
    IF mm = <<>> THEN 0
    ELSE IF mm[Len(mm)].kills # <<>> THEN 0
    ELSE 1 + EntriesAboveLastCapture(SubSeq(mm, 1, Len(mm) - 1))

\* C19: the counter is the number of history entries above the topmost
\* entry with a capture (the history length if there is none), so it lies
\* between 0 and the history length; with a counter of 40 or more the
\* history has at least 6 entries and is_draw answers true.
CounterMatchesHistory ==
    /\ moves_without_kills = EntriesAboveLastCapture(made_moves)
    /\ 0 <= moves_without_kills /\ moves_without_kills <= Len(made_moves)
    /\ moves_without_kills >= DrawLimit =>
          /\ Len(made_moves) >= 6
          /\ IsDrawValue(current_side, made_moves, moves_without_kills)
          /\ last.op = "is_draw" => last.draw

\* is_draw has answered on a counter of 40 under a history of 41 entries,
\* the first of them with a capture
CounterBelowHistoryAtLimit ==
    /\ moves_without_kills = DrawLimit
    /\ Len(made_moves) = DrawLimit + 1
    /\ made_moves[1].kills # <<>>
    /\ last.op = "is_draw"
    /\ last.draw

\* the side to move is the first mover exactly on a history of even length
SideMatchesParity == (current_side = first_side) <=> (Len(made_moves) % 2 = 0)

\* C20: in every state the side to move is the first mover (the side given
\* to the constructor, blue after reset) exactly when the history length
\* is even; between resets the side to move changes in a successful move
\* or undo only, which always change it, and never in kill, promote,
\* is_draw, update_state or score.
TurnAlternation ==
    /\ []SideMatchesParity
    /\ [][last'.op # "reset" =>
            ((current_side' # current_side)
                <=> (last'.ok /\ last'.op \in {"move", "undo_move"}))]_vars

\* red moved first; a move, a capture and a second move were made and the
\* second move undone: blue is to move on a history of one entry
BlueToMoveAfterUndo ==
    /\ last.op = "undo_move" /\ last.ok
    /\ first_side = RED
    /\ current_side = BLUE
    /\ Len(made_moves) = 1
    /\ made_moves[1].kills # <<>>

=============================================================================
